---------------------------- MODULE Spec2Model ----------------------------
(***************************************************************************)
(* Time-to-liquidation of a leveraged perpetual-swap position.             *)
(*                                                                         *)
(*   - the closed-form estimators expected_liquidation_time,               *)
(*     median_liquidation_time and percentile_liquidation_time             *)
(*     (specification Spec), and                                           *)
(*   - the Monte Carlo path simulation of                                  *)
(*     perpetual_swap_liquidation_paths.py (specification SimSpec), and    *)
(*   - funding_comparison.py run as a program (specification MainSpec).    *)
(*                                                                         *)
(* Python floats are modelled as fixed-point numbers with Scale units per  *)
(* 1.0, together with the IEEE values inf, -inf and nan; a Python          *)
(* exception is a value of its own.  TLC integers are 32 bits wide, so     *)
(* products are formed by MulDiv, which never holds a*b.                   *)
(***************************************************************************)
EXTENDS Integers, Sequences, FiniteSets, TLC

VARIABLES
    cur,                \* the latest call of an estimator: arguments and result
    prev,               \* the call before it
    pc,                 \* where the simulation script is
    run,                \* which run of the script this is
    param,              \* the script's parameters: leverage, volatility
    stream,             \* the generator's output sequence for the seed
    rng_pos,            \* the generator's state: its place in the sequence
    paths,              \* per path, its prices
    liquidated,         \* per path, whether it was liquidated
    liquidation_times,  \* per path, its liquidation step (n_steps: none)
    price_paths,        \* history: per path, its prices before any is blanked
    stats,              \* the statistics of the run, once computed
    first,              \* what the first run produced
    main                \* funding_comparison.py run as a program

callVars == <<cur, prev>>

simVars ==
    <<pc, run, param, stream, rng_pos, paths, liquidated, liquidation_times,
      price_paths, stats, first>>

mainVars == <<main>>

vars == <<callVars, simVars, mainVars>>

\* Fixed-point resolution: Scale units per 1.0.
Scale == 10^5

\* ------------------------------------------------------------------------
\* Integer helpers

Abs(n) == IF n < 0 THEN -n ELSE n

Sign(n) == IF n < 0 THEN -1 ELSE IF n > 0 THEN 1 ELSE 0

\* <<q, r>> with a*b = q*c + r and 0 <= r < c, for a, b >= 0 and c > 0,
\* digit by digit over b in radix B; no intermediate value exceeds
\* 2*B*c or q.
RECURSIVE DivModR(_, _, _, _)
DivModR(a, b, c, B) ==
    IF b = 0 THEN <<0, 0>>
    ELSE LET h     == DivModR(a, b \div B, c, B)
             digit == b % B
             t     == B * h[2] + digit * (a % c)
         IN  <<B * h[1] + digit * (a \div c) + t \div c, t % c>>

\* The largest radix among 2^13, 2^8 and 2 with 2*B*c <= 2^31.
Radix(c) == IF c <= 2^17 THEN 2^13 ELSE IF c <= 2^22 THEN 2^8 ELSE 2

DivMod(a, b, c) == DivModR(a, b, c, Radix(c))

\* |a|*|b|/|c| rounded to the nearest integer, for c # 0.
RoundDiv(a, b, c) ==
    LET qr == DivMod(Abs(a), Abs(b), Abs(c))
    IN  qr[1] + (IF 2 * qr[2] >= Abs(c) THEN 1 ELSE 0)

\* a*b/c rounded to the nearest integer, for c # 0.
MulDiv(a, b, c) == Sign(a) * Sign(b) * Sign(c) * RoundDiv(a, b, c)

\* Fixed-point square root: the largest r with r*r <= n*Scale, for n >= 0,
\* found by bisection of lo..hi.
RECURSIVE SqrtSearch(_, _, _)
SqrtSearch(n, lo, hi) ==
    IF lo >= hi THEN lo
    ELSE LET mid == (lo + hi + 1) \div 2
             sq  == DivMod(mid, mid, Scale)
         IN  IF sq[1] < n \/ (sq[1] = n /\ sq[2] = 0)
             THEN SqrtSearch(n, mid, hi)
             ELSE SqrtSearch(n, lo, mid - 1)

Min2(a, b) == IF a < b THEN a ELSE b

Max2(a, b) == IF a > b THEN a ELSE b

\* (n <= 10000*Scale, so the root is at most 100*Scale.)
FixSqrt(n) == SqrtSearch(n, 0, Min2(Max2(n, Scale), 100 * Scale))

\* ------------------------------------------------------------------------
\* Floating-point values
\*
\* [k |-> "fin", v |-> n]   the finite number n/Scale, |n| <= MaxFix
\* [k |-> "big", v |-> s]   a finite number of sign s beyond MaxFix/Scale
\* [k |-> "inf", v |-> s]   s * infinity
\* [k |-> "nan", v |-> 0]   not a number
\* Signed zeros are not distinguished.

\* Largest magnitude held exactly: 10000.0, the upper clamp of
\* percentile_liquidation_time.
MaxFix == 10000 * Scale

Fin(n) == [k |-> "fin", v |-> n]

Big(s) == [k |-> "big", v |-> s]

Inf(s) == [k |-> "inf", v |-> s]

PosInf == Inf(1)

NegInf == Inf(-1)

NaN == [k |-> "nan", v |-> 0]

\* A Python exception leaving the call, in place of a returned value.
ZeroDivisionError == [k |-> "ZeroDivisionError", v |-> 0]

IsNumber(x) == x.k \in {"fin", "big", "inf", "nan"}

IsFinite(x) == x.k \in {"fin", "big"}

\* a*b/c as a float, for |a|, |b| <= MaxFix and c # 0: beyond MaxFix the
\* result is Big.  (a \div c > MaxFix \div b implies a*b/c > MaxFix; otherwise
\* a*b/c < MaxFix + b fits 32 bits.)
FixMulDiv(a, b, c) ==
    LET s == Sign(a) * Sign(b) * Sign(c)
    IN  IF a = 0 \/ b = 0 THEN Fin(0)
        ELSE IF Abs(a) \div Abs(c) > MaxFix \div Abs(b) THEN Big(s)
        ELSE LET q == RoundDiv(a, b, c)
             IN  IF q > MaxFix THEN Big(s) ELSE Fin(s * q)

FNeg(x) == IF x.k = "nan" THEN NaN ELSE [k |-> x.k, v |-> -x.v]

\* x < y; every comparison with nan is false.
FLt(x, y) ==
    LET rank(z) == CASE z.k = "inf" -> 3 * z.v
                     [] z.k = "big" -> 2 * z.v
                     [] z.k = "fin" -> 0
    IN  /\ x.k # "nan"
        /\ y.k # "nan"
        /\ \/ rank(x) < rank(y)
           \/ x.k = "fin" /\ y.k = "fin" /\ x.v < y.v

FLe(x, y) ==
    /\ x.k # "nan"
    /\ y.k # "nan"
    /\ ~FLt(y, x)
    /\ ~(x.k = "big" /\ y.k = "big" /\ x.v = y.v)

FAdd(x, y) ==
    CASE x.k = "nan" \/ y.k = "nan" -> NaN
      [] x.k = "inf" /\ y.k = "inf" -> IF x.v = y.v THEN x ELSE NaN
      [] x.k = "inf" -> x
      [] y.k = "inf" -> y
      [] x.k = "fin" /\ y.k = "fin" ->
            IF Abs(x.v + y.v) > MaxFix THEN Big(Sign(x.v + y.v))
            ELSE Fin(x.v + y.v)
      [] x.k = "big" /\ y.k = "fin" -> x
      [] x.k = "fin" /\ y.k = "big" -> y
      [] x.k = "big" /\ y.k = "big" /\ x.v = y.v -> x

FMul(x, y) ==
    CASE x.k = "nan" \/ y.k = "nan" -> NaN
      [] x.k = "inf" \/ y.k = "inf" ->
            IF x.v = 0 \/ y.v = 0 THEN NaN ELSE Inf(Sign(x.v) * Sign(y.v))
      [] x.k = "fin" /\ y.k = "fin" -> FixMulDiv(x.v, y.v, Scale)
      [] x.k = "big" /\ y.k = "big" -> Big(x.v * y.v)
      [] x.k = "big" /\ y.k = "fin" /\ Abs(y.v) >= Scale -> Big(x.v * Sign(y.v))
      [] x.k = "fin" /\ y.k = "big" /\ Abs(x.v) >= Scale -> Big(y.v * Sign(x.v))

\* IEEE division, as numpy does it: x/0 is an infinity or nan, never an error.
FDiv(x, y) ==
    CASE x.k = "nan" \/ y.k = "nan" -> NaN
      [] x.k = "inf" /\ y.k = "inf" -> NaN
      [] x.k = "inf" -> Inf(x.v * (IF y.v < 0 THEN -1 ELSE 1))
      [] y.k = "inf" -> Fin(0)
      [] y.k = "fin" /\ y.v = 0 ->
            IF x.v = 0 THEN NaN ELSE Inf(Sign(x.v))
      [] x.k = "fin" /\ y.k = "fin" -> FixMulDiv(x.v, Scale, y.v)
      [] x.k = "big" /\ y.k = "fin" /\ Abs(y.v) <= Scale -> Big(x.v * Sign(y.v))

\* np.sqrt
FSqrt(x) ==
    CASE x.k = "nan" -> NaN
      [] x.k = "inf" -> IF x.v > 0 THEN PosInf ELSE NaN
      [] x.k = "fin" -> IF x.v < 0 THEN NaN ELSE Fin(FixSqrt(x.v))

\* Python's built-in min(a, b) and max(a, b): the first argument unless the
\* second compares below (above) it.
PyMin(a, b) == IF FLt(b, a) THEN b ELSE a

PyMax(a, b) == IF FLt(a, b) THEN b ELSE a

\* Guard digits carried by the series below.
Guard == 10^3

\* sum over k >= 1 of x^k / k = -ln(1 - x), for 0 <= x < Scale, in units of
\* 1/(Scale*Guard); pow = x^k in the same units.
RECURSIVE LogSeries(_, _, _)
LogSeries(x, pow, k) ==
    IF pow = 0 THEN 0
    ELSE pow \div k + LogSeries(x, DivMod(pow, x, Scale)[1], k + 1)

\* -ln(1 - x/Scale) rounded to fixed point, for 0 <= x < Scale.
NegLog1m(x) == (LogSeries(x, x * Guard, 1) + Guard \div 2) \div Guard

\* ln(y/Scale) in fixed point, for y > 0.
FixLog(y) ==
    IF y <= Scale THEN -NegLog1m(Scale - y)
    ELSE NegLog1m(Scale - MulDiv(Scale, Scale, y))

\* np.log
FLog(x) ==
    CASE x.k = "nan" -> NaN
      [] x.k = "inf" -> IF x.v > 0 THEN PosInf ELSE NaN
      [] x.k = "fin" ->
            IF x.v < 0 THEN NaN
            ELSE IF x.v = 0 THEN NegInf
            ELSE Fin(FixLog(x.v))

\* ------------------------------------------------------------------------
\* The closed-form estimators
\*
\* Arguments are Python numbers in fixed point; the result is a float or a
\* Python exception.

DaysPerYear == 365

Half == Scale \div 2

\* volatility**2
Square(x) == MulDiv(x, x, Scale)

\* liquidation_distance = 1 / leverage, for leverage # 0
liquidation_distance(leverage) == MulDiv(Scale, Scale, leverage)

\* barrier_distance without the sign change: np.log(1 - liquidation_distance).
barrier_distance_unsigned(leverage) ==
    FLog(Fin(Scale - liquidation_distance(leverage)))

\* b = -np.log(1 - liquidation_distance), for leverage # 0
barrier_distance(leverage) ==
    FNeg(FLog(Fin(Scale - liquidation_distance(leverage))))

\* expected_liquidation_time with its branch taken for denominator < 0 only.
expected_liquidation_time_strict(leverage, volatility, drift, funding) ==
    LET denominator == (drift - funding) + Square(volatility) \div 2
    IN  IF leverage = 0 THEN ZeroDivisionError
        ELSE IF denominator < 0
        THEN LET d == MulDiv(leverage, Square(volatility), Scale)
             IN  IF d = 0 THEN ZeroDivisionError
                 ELSE FixMulDiv(DaysPerYear * Scale, Scale, d)
        ELSE FMul(FDiv(barrier_distance(leverage), Fin(denominator)),
                  Fin(DaysPerYear * Scale))

\* expected_liquidation_time without its branch for denominator <= 0.
expected_liquidation_time_unguarded(leverage, volatility, drift, funding) ==
    LET denominator == (drift - funding) + Square(volatility) \div 2
    IN  IF leverage = 0 THEN ZeroDivisionError
        ELSE FMul(FDiv(barrier_distance(leverage), Fin(denominator)),
                  Fin(DaysPerYear * Scale))

\* expected_liquidation_time(leverage, volatility, drift=0, funding=0)
expected_liquidation_time(leverage, volatility, drift, funding) ==
    LET mu          == drift - funding
        denominator == mu + Square(volatility) \div 2
    IN  IF leverage = 0 THEN ZeroDivisionError
        ELSE IF denominator <= 0
        THEN LET d == MulDiv(leverage, Square(volatility), Scale)
             IN  IF d = 0 THEN ZeroDivisionError
                 ELSE FixMulDiv(DaysPerYear * Scale, Scale, d)
        ELSE LET expected_time ==
                     FDiv(barrier_distance(leverage), Fin(denominator))
             IN  FMul(expected_time, Fin(DaysPerYear * Scale))

\* adjustment = np.sqrt(2/np.pi)
SqrtTwoOverPi == 79788

\* median_liquidation_time(leverage, volatility, drift=0, funding=0)
median_liquidation_time(leverage, volatility, drift, funding) ==
    LET net_drift == drift - funding
    IN  IF leverage = 0 THEN ZeroDivisionError
        ELSE LET b == barrier_distance(leverage)
                 median_time ==
                     IF net_drift < -Square(volatility)
                     THEN FDiv(b, Fin(Abs(net_drift)))
                     ELSE LET effective_drift ==
                                  Abs(net_drift)
                                  + MulDiv(Square(volatility), SqrtTwoOverPi, Scale)
                          IN  FDiv(b, Fin(effective_drift))
             IN  FMul(median_time, Fin(DaysPerYear * Scale))

\* z = stats.norm.ppf(percentile): the standard normal quantile, tabulated
\* at the percentiles the model calls it with.
norm_ppf(percentile) ==
    CASE percentile < 0 \/ percentile > Scale -> NaN
      [] percentile = 0 -> NegInf
      [] percentile = Scale -> PosInf
      [] percentile = Half -> Fin(0)
      [] percentile = 5000 -> Fin(-164485)
      [] percentile = 25000 -> Fin(-67449)
      [] percentile = 45000 -> Fin(-12566)
      [] percentile = 75000 -> Fin(67449)
      [] percentile = 95000 -> Fin(164485)

\* Cap and fallback of mu_param, in years.
MuCap == 100

\* Bounds of the returned percentile, in days: 0.1 and 10000.
MinDays == Scale \div 10

MaxDays == 10000 * Scale

\* mu_param without "mu_param = min(mu_param, 100)".
mu_param_uncapped(leverage, volatility, drift, funding) ==
    LET denom == (drift - funding) + Square(volatility) \div 2
    IN  IF denom > 0 THEN FDiv(barrier_distance(leverage), Fin(denom))
        ELSE Fin(MuCap * Scale)

\* mu_param = b / (net_drift + 0.5 * volatility**2)
\*                if (net_drift + 0.5 * volatility**2) > 0 else 100
\* mu_param = min(mu_param, 100)
mu_param(leverage, volatility, drift, funding) ==
    LET denom == (drift - funding) + Square(volatility) \div 2
    IN  PyMin(IF denom > 0 THEN FDiv(barrier_distance(leverage), Fin(denom))
              ELSE Fin(MuCap * Scale),
              Fin(MuCap * Scale))

\* The inverse Gaussian branch of percentile_liquidation_time, for
\* leverage # 0.  (The code computes mu_param and lambda_param before it
\* branches on percentile == 0.5; numpy divisions do not raise.)
inverse_gaussian_percentile(leverage, volatility, drift, funding, percentile) ==
    LET b            == barrier_distance(leverage)
        mu           == mu_param(leverage, volatility, drift, funding)
        lambda_param == FDiv(FMul(b, b), Fin(Square(volatility)))
        z            == norm_ppf(percentile)
        percentile_time ==
            FMul(mu, FAdd(Fin(Scale), FMul(z, FSqrt(FDiv(mu, lambda_param)))))
    IN  PyMax(Fin(MinDays),
              PyMin(FMul(percentile_time, Fin(DaysPerYear * Scale)), Fin(MaxDays)))

\* percentile_liquidation_time without its branch for percentile == 0.5.
percentile_liquidation_time_undelegated(leverage, volatility, drift, funding, percentile) ==
    IF leverage = 0 THEN ZeroDivisionError
    ELSE inverse_gaussian_percentile(leverage, volatility, drift, funding, percentile)

\* percentile_liquidation_time(leverage, volatility, drift=0, funding=0,
\*                             percentile=0.5)
percentile_liquidation_time(leverage, volatility, drift, funding, percentile) ==
    IF leverage = 0 THEN ZeroDivisionError
    ELSE IF percentile = Half
    THEN median_liquidation_time(leverage, volatility, drift, funding)
    ELSE inverse_gaussian_percentile(leverage, volatility, drift, funding, percentile)

\* ------------------------------------------------------------------------
\* Calls of the estimators
\*
\* A caller evaluates the estimators over a grid, one call after another
\* (create_liquidation_heatmap, create_median_leverage_funding_chart).  Each
\* call after the first keeps the function and changes at most one argument,
\* or keeps every argument and changes the function, so that consecutive
\* calls are comparable.

\* Argument values: valid ones, and the invalid leverage <= 1, volatility <= 0
\* and percentile outside (0, 1).
Leverages == {0, Half, Scale, 2 * Scale, 5 * Scale, 10 * Scale}

Volatilities == {-Half, 0, Half, Scale}

Drifts == {-Half, 0, Half}

Fundings == {0, Half \div 2, Scale}

\* With the funding under which (drift - funding) + 0.5 * volatility**2 is
\* 0.005 at volatility 0.5 and zero drift: b / 0.005 is beyond 100 years at
\* leverage 2, and the mean time beyond the fixed-point range, so only
\* percentile_liquidation_time is called with it.
PercentileFundings == Fundings \cup {(12 * Scale) \div 100}

Percentiles ==
    {-Half, 0, 5000, 25000, 45000, Half, 75000, 95000, Scale, 3 * Half}

NoCall ==
    [fn |-> "none", leverage |-> 0, volatility |-> 0, drift |-> 0,
     funding |-> 0, percentile |-> Half, result |-> NaN]

Call(fn, l, v, d, f, p, r) ==
    [fn |-> fn, leverage |-> l, volatility |-> v, drift |-> d,
     funding |-> f, percentile |-> p, result |-> r]

Grid ==
    Leverages \X Volatilities \X Drifts \X PercentileFundings \X Percentiles

\* The latest call's arguments, and those differing from them in at most one.
CurArgs == <<cur.leverage, cur.volatility, cur.drift, cur.funding, cur.percentile>>

Sweep ==
    {[CurArgs EXCEPT ![1] = l] : l \in Leverages}
    \cup {[CurArgs EXCEPT ![2] = v] : v \in Volatilities}
    \cup {[CurArgs EXCEPT ![3] = d] : d \in Drifts}
    \cup {[CurArgs EXCEPT ![4] = f] : f \in PercentileFundings}
    \cup {[CurArgs EXCEPT ![5] = p] : p \in Percentiles}

\* The arguments the next call of fn may have.
Next_in_grid(fn) ==
    LET near == IF cur.fn = "none" THEN Grid
                ELSE IF cur.fn = fn THEN Sweep
                ELSE {CurArgs}
    IN  IF fn = "percentile_liquidation_time" THEN near
        ELSE {a \in near : a[4] \in Fundings}

\* The estimators are pure: their values over the grid are computed once and
\* looked up by the calls (@@ makes the table an explicit function).
ExpectedTable ==
    [l \in Leverages, v \in Volatilities, d \in Drifts, f \in Fundings |->
        expected_liquidation_time(l, v, d, f)] @@ <<>>

MedianTable ==
    [l \in Leverages, v \in Volatilities, d \in Drifts, f \in Fundings |->
        median_liquidation_time(l, v, d, f)] @@ <<>>

PercentileTable ==
    [l \in Leverages, v \in Volatilities, d \in Drifts,
     f \in PercentileFundings, p \in Percentiles |->
        percentile_liquidation_time(l, v, d, f, p)] @@ <<>>

NoStats ==
    [n_liquidated |-> 0, pct_liquidated |-> NaN, avg_liquidation_time |-> NaN]

NoRun ==
    [paths |-> <<>>, liquidated |-> <<>>, liquidation_times |-> <<>>,
     stats |-> NoStats]

\* The simulation script is not running.
SimIdle ==
    /\ pc = "idle"
    /\ run = 0
    /\ param = [leverage |-> 0, volatility |-> 0]
    /\ stream = <<>>
    /\ rng_pos = 0
    /\ paths = <<>>
    /\ liquidated = <<>>
    /\ liquidation_times = <<>>
    /\ price_paths = <<>>
    /\ stats = NoStats
    /\ first = NoRun

\* funding_comparison.py is not running as a program.
MainIdle ==
    main = [pc |-> "idle", scenario |-> 0, times |-> <<>>, rows |-> <<>>,
            printed |-> <<>>]

Init ==
    /\ cur = NoCall
    /\ prev = NoCall
    /\ SimIdle
    /\ MainIdle

\* percentile is left at its default, 0.5, by the two estimators without it.
CallExpected ==
    \E a \in Next_in_grid("expected_liquidation_time") :
        /\ a[5] = Half
        /\ cur' = Call("expected_liquidation_time", a[1], a[2], a[3], a[4], Half,
                       ExpectedTable[a[1], a[2], a[3], a[4]])
        /\ prev' = cur
        /\ UNCHANGED <<simVars, mainVars>>

CallMedian ==
    \E a \in Next_in_grid("median_liquidation_time") :
        /\ a[5] = Half
        /\ cur' = Call("median_liquidation_time", a[1], a[2], a[3], a[4], Half,
                       MedianTable[a[1], a[2], a[3], a[4]])
        /\ prev' = cur
        /\ UNCHANGED <<simVars, mainVars>>

CallPercentile ==
    \E a \in Next_in_grid("percentile_liquidation_time") :
        /\ cur' = Call("percentile_liquidation_time", a[1], a[2], a[3], a[4], a[5],
                       PercentileTable[a[1], a[2], a[3], a[4], a[5]])
        /\ prev' = cur
        /\ UNCHANGED <<simVars, mainVars>>

Next == CallExpected \/ CallMedian \/ CallPercentile

Spec == Init /\ [][Next]_vars

\* ------------------------------------------------------------------------
\* The path simulation (perpetual_swap_liquidation_paths.py)

\* Paths per run and steps per path.
n_paths == 2

n_steps == 2

initial_price == 100

\* dt = 1/365: daily steps.
StepsPerYear == 365

dt == FDiv(Fin(Scale), Fin(StepsPerYear * Scale))

\* np.sqrt(dt)
sqrt_dt == FSqrt(dt)

\* drift = 0.0
sim_drift == Fin(0)

\* The script's leverage, 10, and two more; its volatility, 0.5, and an
\* extreme one, under which prices leave the floating-point range.
SimLeverages == {10 * Scale, 15 * Scale, 20 * Scale}

SimVolatilities == {Half, MaxFix}

\* Standard normal deviates the generator yields.
Deviates == {-3, 1}

\* Draws of one run.  The generator's sequence is periodic, with a period
\* longer than one run.
NDraws == n_paths * n_steps

Period == NDraws + 1

\* The generator left where it is: no seeding.
np_random_seed_skipped(pos) == pos

\* np.random.seed(42): the generator's place after seeding.
np_random_seed(pos) == 0

\* The largest x with np.exp(x) finite: ln of the largest double.
ExpOverflow == 709 * Scale + 78271

\* sum over k >= n of x^k / k!, in units of 1/(Scale*Guard), for |x| <= Scale;
\* term = x^n / n!.
RECURSIVE ExpSeries(_, _, _)
ExpSeries(x, term, n) ==
    IF term = 0 THEN 0
    ELSE term + ExpSeries(x, Sign(term) * Sign(x)
                              * DivMod(Abs(term), Abs(x), (n + 1) * Scale)[1],
                          n + 1)

\* np.exp of the finite x/Scale: by its series up to 1, by squaring the
\* exponential of the half beyond; e^10 > MaxFix/Scale, e^-13 < 1/Scale.
RECURSIVE FixExp(_)
FixExp(x) ==
    IF x > ExpOverflow THEN PosInf
    ELSE IF x >= 10 * Scale THEN Big(1)
    ELSE IF x <= -13 * Scale THEN Fin(0)
    ELSE IF Abs(x) <= Scale
    THEN Fin((ExpSeries(x, Scale * Guard, 0) + Guard \div 2) \div Guard)
    ELSE LET h == FixExp(x \div 2) IN FMul(h, h)

\* np.exp
FExp(x) ==
    CASE x.k = "nan" -> NaN
      [] x.k = "inf" -> IF x.v > 0 THEN PosInf ELSE Fin(0)
      [] x.k = "big" -> IF x.v > 0 THEN PosInf ELSE Fin(0)
      [] x.k = "fin" -> FixExp(x.v)

\* liquidation_price without the leverage: the initial price itself.
liquidation_price_at_entry(leverage) == Fin(initial_price * Scale)

\* liquidation_price = initial_price * (1 - 1/leverage)
liquidation_price(leverage) ==
    FMul(Fin(initial_price * Scale), Fin(Scale - liquidation_distance(leverage)))

\* returns = np.random.normal(drift * dt, volatility * np.sqrt(dt), n_steps),
\* drawn from place pos of the generator's sequence on: returns[j] is the
\* j-th draw.
returns(pos, volatility) ==
    LET loc   == FMul(sim_drift, dt)
        scale == FMul(Fin(volatility), sqrt_dt)
    IN  [j \in 1..n_steps |->
            FAdd(loc, FMul(scale, Fin(stream[((pos + j - 1) % Period) + 1] * Scale)))]

\* np.cumsum
RECURSIVE cumsum(_, _)
cumsum(r, j) == IF j = 1 THEN r[1] ELSE FAdd(cumsum(r, j - 1), r[j])

\* price_path = np.insert(initial_price * np.exp(np.cumsum(returns)), 0,
\* initial_price); entry j + 1 of the sequence is price_path[j].
price_path(pos, volatility) ==
    LET r == returns(pos, volatility)
    IN  <<Fin(initial_price * Scale)>>
        \o [j \in 1..n_steps |->
               FMul(Fin(initial_price * Scale), FExp(cumsum(r, j)))]

\* liquidation_idx = np.where(price_path <= liquidation_price)[0]
liquidation_idx(path, leverage) ==
    LET barrier == liquidation_price(leverage)
    IN  {j \in 0..n_steps : FLe(path[j + 1], barrier)}

\* liquidation_idx[-1]: the last index in place of the first.
last_index(idx) == CHOOSE m \in idx : \A k \in idx : m >= k

\* liq_time = liquidation_idx[0]: np.where lists the indices in ascending order.
first_index(idx) == CHOOSE m \in idx : \A k \in idx : m <= k

\* price_path[liq_time] = np.nan: one entry blanked, not the rest of the path.
blank_at(path, liq_time) ==
    [j \in 1..(n_steps + 1) |-> IF j - 1 = liq_time THEN NaN ELSE path[j]]

\* price_path[liq_time:] = np.nan
blank_from(path, liq_time) ==
    [j \in 1..(n_steps + 1) |-> IF j - 1 >= liq_time THEN NaN ELSE path[j]]

Count(flags) == Cardinality({i \in 1..Len(flags) : flags[i]})

RECURSIVE SumOver(_, _, _)
SumOver(times, flags, i) ==
    IF i = 0 THEN 0
    ELSE SumOver(times, flags, i - 1) + (IF flags[i] THEN times[i] ELSE 0)

\* np.mean(liquidation_times): the survivors' n_steps averaged in.
avg_liquidation_time_all(times, flags) ==
    IF Count(flags) > 0
    THEN FDiv(Fin(SumOver(times, [i \in 1..Len(flags) |-> TRUE], Len(flags)) * Scale),
              Fin(Len(flags) * Scale))
    ELSE Fin(n_steps * Scale)

\* avg_liquidation_time = np.mean(liquidation_times[liquidated])
\*                        if n_liquidated > 0 else n_steps
avg_liquidation_time(times, flags) ==
    IF Count(flags) > 0
    THEN FDiv(Fin(SumOver(times, flags, Len(flags)) * Scale),
              Fin(Count(flags) * Scale))
    ELSE Fin(n_steps * Scale)

\* pct_liquidated = (n_liquidated / n_paths) * 100
pct_liquidated(flags) ==
    FMul(FDiv(Fin(Count(flags) * Scale), Fin(n_paths * Scale)), Fin(100 * Scale))

\* The script has run to its simulation loop: parameters set, generator
\* seeded, result lists empty.
SimInit ==
    /\ cur = NoCall
    /\ prev = NoCall
    /\ pc = "loop"
    /\ run = 1
    /\ param \in [leverage : SimLeverages, volatility : SimVolatilities]
    /\ stream \in [1..Period -> Deviates]
    /\ rng_pos = np_random_seed(0)
    /\ paths = <<>>
    /\ liquidated = <<>>
    /\ liquidation_times = <<>>
    /\ price_paths = <<>>
    /\ stats = NoStats
    /\ first = NoRun
    /\ MainIdle

\* One iteration of "for i in range(n_paths)".
SimulatePath ==
    /\ pc = "loop"
    /\ Len(paths) < n_paths
    /\ LET path == price_path(rng_pos, param.volatility)
           idx  == liquidation_idx(path, param.leverage)
       IN  /\ IF idx # {}
              THEN /\ paths' = Append(paths, blank_from(path, first_index(idx)))
                   /\ liquidated' = Append(liquidated, TRUE)
                   /\ liquidation_times' =
                          Append(liquidation_times, first_index(idx))
              ELSE /\ paths' = Append(paths, path)
                   /\ liquidated' = Append(liquidated, FALSE)
                   /\ liquidation_times' = Append(liquidation_times, n_steps)
           /\ price_paths' = Append(price_paths, path)
    /\ rng_pos' = (rng_pos + n_steps) % Period
    /\ UNCHANGED <<pc, run, param, stream, stats, first, callVars, mainVars>>

\* The loop is over: the statistics.
Statistics ==
    /\ pc = "loop"
    /\ Len(paths) = n_paths
    /\ stats' = [n_liquidated |-> Count(liquidated),
                 pct_liquidated |-> pct_liquidated(liquidated),
                 avg_liquidation_time |->
                     avg_liquidation_time(liquidation_times, liquidated)]
    /\ pc' = "done"
    /\ UNCHANGED <<run, param, stream, rng_pos, paths, liquidated,
                   liquidation_times, price_paths, first, callVars, mainVars>>

\* The script is run again, with the same parameters and seed: it seeds the
\* generator and empties its lists.
RunAgain ==
    /\ pc = "done"
    /\ run = 1
    /\ first' = [paths |-> paths, liquidated |-> liquidated,
                 liquidation_times |-> liquidation_times, stats |-> stats]
    /\ run' = 2
    /\ rng_pos' = np_random_seed(rng_pos)
    /\ paths' = <<>>
    /\ liquidated' = <<>>
    /\ liquidation_times' = <<>>
    /\ price_paths' = <<>>
    /\ stats' = NoStats
    /\ pc' = "loop"
    /\ UNCHANGED <<param, stream, callVars, mainVars>>

SimNext == SimulatePath \/ Statistics \/ RunAgain

SimSpec == SimInit /\ [][SimNext]_vars

\* ------------------------------------------------------------------------
\* funding_comparison.py run as a program (its "__main__" block)

\* Points of leverages = np.linspace(2, 50, 100).
n_leverages == 25

\* create_median_leverage_funding_chart(volatility=150): percent.
chart_volatility == 150

\* leverages[i - 1], for i in 1..n_leverages: from 2 to 50 in equal steps.
leverages(i) == 2 * Scale + (48 * Scale * (i - 1)) \div (n_leverages - 1)

\* The funding of each scenario; the drift of each is 0.
scenarios == <<0, Scale \div 10, Scale \div 5, Half, Scale>>

\* The names bound in create_median_leverage_funding_chart when it returns,
\* and the module's global names.  (No builtin is named ax1 or ax2.)
LocalNames ==
    {"volatility", "save_path", "leverages", "scenarios", "fig", "ax", "drift",
     "funding", "label", "color", "linestyle", "linewidth", "times", "lev",
     "days", "_", "median_days", "net_drift", "comment"}

GlobalNames ==
    {"np", "plt", "ticker", "sns", "stats", "median_liquidation_time",
     "percentile_liquidation_time", "create_median_leverage_funding_chart",
     "create_mean_vs_median_chart"}

\* The names read by "return fig, (ax1, ax2)".
ReturnedNames == {"fig", "ax1", "ax2"}

\* median_liquidation_time(lev, volatility/100, drift, funding) of a scenario
chart_median(leverage, scenario) ==
    median_liquidation_time(leverage, (chart_volatility * Scale) \div 100, 0,
                            scenarios[scenario])

\* The program is started.
MainInit ==
    /\ cur = NoCall
    /\ prev = NoCall
    /\ SimIdle
    /\ main = [pc |-> "start", scenario |-> 0, times |-> <<>>, rows |-> <<>>,
               printed |-> <<>>]

\* print("Creating median liquidation time charts...") and the call of
\* create_median_leverage_funding_chart, up to its first scenario.
StartMain ==
    /\ main.pc = "start"
    /\ main' = [main EXCEPT
                   !.pc = "leverage_loop",
                   !.scenario = 1,
                   !.printed = Append(@, "Creating median liquidation time charts...")]
    /\ UNCHANGED <<callVars, simVars>>

\* One iteration of "for lev in leverages".
MedianPoint ==
    /\ main.pc = "leverage_loop"
    /\ Len(main.times) < n_leverages
    /\ main' = [main EXCEPT
                   !.times = Append(@, chart_median(leverages(Len(@) + 1),
                                                    main.scenario))]
    /\ UNCHANGED <<callVars, simVars>>

\* ax.plot of a scenario, then the next scenario with "times = []"; after the
\* last one the styling and the figure's saving, up to the table.
PlotScenario ==
    /\ main.pc = "leverage_loop"
    /\ Len(main.times) = n_leverages
    /\ main' = IF main.scenario < Len(scenarios)
               THEN [main EXCEPT !.scenario = @ + 1, !.times = <<>>]
               ELSE [main EXCEPT
                        !.pc = "table",
                        !.scenario = 1,
                        !.printed = Append(@, "MEDIAN vs EXPECTED TIME COMPARISON")]
    /\ UNCHANGED <<callVars, simVars>>

\* One row of the comparison table: median_liquidation_time(10, ...).
TableRow ==
    /\ main.pc = "table"
    /\ main' = [main EXCEPT
                   !.rows = Append(@, chart_median(10 * Scale, main.scenario)),
                   !.scenario = IF @ < Len(scenarios) THEN @ + 1 ELSE @,
                   !.pc = IF main.scenario < Len(scenarios) THEN @ ELSE "return"]
    /\ UNCHANGED <<callVars, simVars>>

\* "return fig, (ax1, ax2)": a name bound neither locally nor globally raises
\* NameError, which nothing catches, so the program ends with it.  Were the
\* names bound, the program would go on with create_mean_vs_median_chart and
\* print its key insights.
ReturnFigure ==
    /\ main.pc = "return"
    /\ main' = IF ReturnedNames \subseteq LocalNames \cup GlobalNames
               THEN [main EXCEPT
                        !.pc = "done",
                        !.printed = @ \o <<"Creating mean vs median comparison...",
                                           "KEY INSIGHTS - MEDIAN LIQUIDATION TIMES">>]
               ELSE [main EXCEPT !.pc = "NameError"]
    /\ UNCHANGED <<callVars, simVars>>

MainNext == StartMain \/ MedianPoint \/ PlotScenario \/ TableRow \/ ReturnFigure

MainSpec == MainInit /\ [][MainNext]_vars

\* ------------------------------------------------------------------------
\* Properties of the estimators (specification Spec)

\* The validation failure: a call that leaves with it returns no number.  No
\* estimator produces it.
InvalidParameter == [k |-> "InvalidParameter", v |-> 0]

IsExpected(c) == c.fn = "expected_liquidation_time"

IsMedian(c) == c.fn = "median_liquidation_time"

IsPercentile(c) == c.fn = "percentile_liquidation_time"

\* leverage > 1 and volatility > 0
ValidParameters(c) == c.leverage > Scale /\ c.volatility > 0

\* (drift - funding) + 0.5 * volatility**2 of a call
Denominator(c) == (c.drift - c.funding) + Square(c.volatility) \div 2

\* C1: expected_liquidation_time and median_liquidation_time fail with
\* InvalidParameter, returning no number, whenever leverage <= 1 or
\* volatility <= 0.
C1_InvalidParameterRaised ==
    (IsExpected(cur) \/ IsMedian(cur)) /\ ~ValidParameters(cur)
        => cur.result = InvalidParameter

\* C2: percentile_liquidation_time fails with InvalidParameter whenever the
\* percentile is <= 0 or >= 1.
C2_PercentileRejected ==
    IsPercentile(cur) /\ (cur.percentile <= 0 \/ cur.percentile >= Scale)
        => cur.result = InvalidParameter

\* C3: for leverage > 1 and volatility > 0, percentile_liquidation_time with
\* percentile = 0.5 returns exactly what median_liquidation_time returns for
\* the same leverage, volatility, drift and funding, whichever is called first.
C3_PercentileHalfIsMedian ==
    /\ ValidParameters(cur)
    /\ cur.percentile = Half
    /\ \/ IsMedian(prev) /\ IsPercentile(cur)
       \/ IsPercentile(prev) /\ IsMedian(cur)
    => cur.result = prev.result

\* A median call followed by a percentile call at 0.5 with the same valid
\* arguments, returning a finite number of days.
C3_Witness ==
    /\ IsMedian(prev)
    /\ IsPercentile(cur)
    /\ cur.percentile = Half
    /\ ValidParameters(cur)
    /\ cur.result.k = "fin"
    /\ cur.result.v > MinDays

\* C4: for leverage > 1 and volatility > 0, expected_liquidation_time returns
\* a strictly positive number of days, in the denominator > 0 branch and in
\* the denominator <= 0 branch.
C4_ExpectedPositive ==
    IsExpected(cur) /\ ValidParameters(cur)
        => IsFinite(cur.result) /\ cur.result.v > 0

\* A valid call that takes the denominator <= 0 branch.
C4_Witness ==
    /\ IsExpected(cur)
    /\ ValidParameters(cur)
    /\ Denominator(cur) < 0
    /\ cur.result.k = "fin"
    /\ cur.result.v > 0

\* Two successive calls of expected_liquidation_time with leverages
\* 1 < L1 < L2 (prev has L1, cur has L2) and the same other arguments.
LeverageRaised ==
    /\ IsExpected(prev)
    /\ IsExpected(cur)
    /\ prev.volatility = cur.volatility
    /\ prev.drift = cur.drift
    /\ prev.funding = cur.funding
    /\ cur.volatility > 0
    /\ Scale < prev.leverage
    /\ prev.leverage < cur.leverage

\* C10, as stated: raising the leverage strictly increases the barrier
\* distance b = -ln(1 - 1/leverage) and, where the denominator is positive,
\* lowers expected_liquidation_time.
C10_BarrierIncreases ==
    LeverageRaised
        => /\ FLt(barrier_distance(prev.leverage), barrier_distance(cur.leverage))
           /\ Denominator(cur) > 0 => FLt(cur.result, prev.result)

\* C10, amended: raising the leverage strictly decreases the barrier distance
\* b = -ln(1 - 1/leverage) and, where the denominator is positive, lowers
\* expected_liquidation_time.
C10_BarrierDecreases ==
    LeverageRaised
        => /\ FLt(barrier_distance(cur.leverage), barrier_distance(prev.leverage))
           /\ Denominator(cur) > 0 => FLt(cur.result, prev.result)

\* The leverage raised from 2 to 10 with a positive denominator.
C10_Witness ==
    /\ LeverageRaised
    /\ Denominator(cur) > 0
    /\ prev.leverage = 2 * Scale
    /\ cur.leverage = 10 * Scale
    /\ FLt(cur.result, prev.result)

\* Two fixed-point numbers agree to the rounding of the operations between
\* them: 5 units of 1/Scale.
Near(x, y) == Abs(x - y) <= 5

\* C11: expected_liquidation_time branches on
\* denom = (drift - funding) + 0.5 * volatility^2.  For denom <= 0, denom = 0
\* included, the result r is 365 / (leverage * volatility^2), that is
\* r * leverage * volatility^2 = 365; otherwise r is
\* -ln(1 - 1/leverage) / denom * 365, that is r * denom / 365 = b.  Leverage
\* 10 with zero drift and funding gives about 307.6 days at volatility 0.5 and
\* about 76.9 days at volatility 1.0.
C11_BranchOnDenominator ==
    IsExpected(cur) /\ ValidParameters(cur) =>
        /\ cur.result.k = "fin"
        /\ IF Denominator(cur) <= 0
           THEN Near(MulDiv(cur.result.v,
                            MulDiv(cur.leverage, Square(cur.volatility), Scale),
                            Scale),
                     DaysPerYear * Scale)
           ELSE Near(MulDiv(cur.result.v, Denominator(cur), DaysPerYear * Scale),
                     barrier_distance(cur.leverage).v)
        /\ cur.leverage = 10 * Scale /\ cur.drift = 0 /\ cur.funding = 0 =>
               /\ cur.volatility = Half =>
                      Abs(cur.result.v - 30760000) < Scale \div 10
               /\ cur.volatility = Scale =>
                      Abs(cur.result.v - 7690000) < Scale \div 10

\* A valid call with denom = 0 exactly, answered by the closed form of the
\* denom <= 0 branch.
C11_Witness ==
    /\ IsExpected(cur)
    /\ ValidParameters(cur)
    /\ Denominator(cur) = 0
    /\ cur.result.k = "fin"
    /\ Near(MulDiv(cur.result.v,
                   MulDiv(cur.leverage, Square(cur.volatility), Scale), Scale),
            DaysPerYear * Scale)

\* A percentile strictly between 0 and 1 other than 0.5.
InverseGaussianCall(c) ==
    /\ IsPercentile(c)
    /\ ValidParameters(c)
    /\ 0 < c.percentile
    /\ c.percentile < Scale
    /\ c.percentile # Half

\* b / denom is beyond the cap of mu_param.
CapBinds(c) ==
    /\ Denominator(c) > 0
    /\ barrier_distance(c.leverage).v > MuCap * Denominator(c)

\* C12: for valid parameters and a percentile in (0,1) other than 0.5,
\* percentile_liquidation_time returns a number of days within [0.1, 10000],
\* and its mu_param never exceeds 100: it is 100 when denom <= 0 and
\* b / denom capped at 100 when denom > 0.
C12_PercentileClamped ==
    InverseGaussianCall(cur) =>
        LET mu == mu_param(cur.leverage, cur.volatility, cur.drift, cur.funding)
        IN  /\ cur.result.k = "fin"
            /\ MinDays <= cur.result.v
            /\ cur.result.v <= MaxDays
            /\ mu.k = "fin"
            /\ mu.v <= MuCap * Scale
            /\ Denominator(cur) <= 0 => mu.v = MuCap * Scale
            /\ CapBinds(cur) => mu.v = MuCap * Scale
            /\ Denominator(cur) > 0 /\ ~CapBinds(cur) =>
                   Near(MulDiv(mu.v, Denominator(cur), Scale),
                        barrier_distance(cur.leverage).v)

\* A call with denom > 0 whose b / denom is beyond 100, answered within the
\* bounds and above the floor.
C12_Witness ==
    /\ InverseGaussianCall(cur)
    /\ CapBinds(cur)
    /\ cur.result.k = "fin"
    /\ MinDays < cur.result.v
    /\ cur.result.v <= MaxDays

\* Two successive calls with the same leverage, volatility, drift and funding.
SameParameters ==
    /\ prev.leverage = cur.leverage
    /\ prev.volatility = cur.volatility
    /\ prev.drift = cur.drift
    /\ prev.funding = cur.funding

\* C13: for leverage > 1 and volatility > 0, median_liquidation_time returns
\* strictly less than expected_liquidation_time for the same leverage,
\* volatility, drift and funding, also where the mean is the closed form of
\* its denom <= 0 branch.
C13_MedianBelowMean ==
    /\ IsMedian(prev)
    /\ IsExpected(cur)
    /\ SameParameters
    /\ ValidParameters(cur)
    => FLt(prev.result, cur.result)

\* Two successive calls of median_liquidation_time with fundings f1 < f2 (prev
\* has f1, cur has f2) and the same other arguments.
FundingRaised ==
    /\ IsMedian(prev)
    /\ IsMedian(cur)
    /\ prev.leverage = cur.leverage
    /\ prev.volatility = cur.volatility
    /\ prev.drift = cur.drift
    /\ prev.funding < cur.funding
    /\ ValidParameters(cur)

\* C14: with leverage, volatility and drift fixed, a higher funding never
\* gives a larger median_liquidation_time, across the threshold
\* net drift = -volatility^2 and for positive net drift too.
C14_MedianFallsWithFunding ==
    FundingRaised => FLe(cur.result, prev.result)

\* Two successive calls of percentile_liquidation_time with percentiles
\* 0 < p1 < p2 < 1 (prev has p1, cur has p2) and the same other arguments.
PercentileRaised ==
    /\ IsPercentile(prev)
    /\ IsPercentile(cur)
    /\ SameParameters
    /\ ValidParameters(cur)
    /\ 0 < prev.percentile
    /\ prev.percentile < cur.percentile
    /\ cur.percentile < Scale

\* C15: for fixed leverage, volatility, drift and funding,
\* percentile_liquidation_time is non-decreasing in the percentile over (0,1),
\* also from a percentile below 0.5 to 0.5 and from 0.5 to one above it.
C15_MonotoneInPercentile ==
    PercentileRaised => FLe(prev.result, cur.result)

\* ------------------------------------------------------------------------
\* Properties of the simulation (specification SimSpec)

Paths == 1..Len(paths)

Steps == 0..n_steps

IsNonFinite(x) == x.k \in {"inf", "nan"}

\* The indices at which path i, as generated, is at or below the liquidation
\* price.
Crossings(i) ==
    {j \in Steps : FLe(price_paths[i][j + 1], liquidation_price(param.leverage))}

\* C5: the run draws path by path, step by step, and a second run with the
\* same seed and parameters produces the same liquidation step of every path,
\* the same prices and the same liquidated fraction.
C5_Deterministic ==
    /\ pc = "loop" => rng_pos = Len(paths) * n_steps
    /\ run = 2 =>
          \A i \in Paths :
              /\ liquidation_times[i] = first.liquidation_times[i]
              /\ liquidated[i] = first.liquidated[i]
              /\ paths[i] = first.paths[i]
    /\ run = 2 /\ pc = "done" =>
          /\ stats.pct_liquidated = first.stats.pct_liquidated
          /\ stats.n_liquidated = first.stats.n_liquidated

\* A second run is over, with a liquidated path and a surviving one.
C5_Witness ==
    /\ run = 2
    /\ pc = "done"
    /\ \E i, k \in Paths : liquidated[i] /\ ~liquidated[k]

\* C6: each path ends liquidated or survived; a path that is at or below the
\* liquidation price at some step is liquidated whatever its later prices,
\* and none of its prices from that step on is kept; a survivor keeps its
\* prices and has the horizon as its time.
C6_Absorbing ==
    /\ Len(liquidated) = Len(paths)
    /\ Len(liquidation_times) = Len(paths)
    /\ pc = "done" => Len(paths) = n_paths
    /\ \A i \in Paths :
          /\ liquidated[i] \in BOOLEAN
          /\ Crossings(i) # {} =>
                /\ liquidated[i]
                /\ \A j \in Steps :
                      (\E k \in Crossings(i) : k <= j) => paths[i][j + 1] = NaN
          /\ ~liquidated[i] =>
                /\ liquidation_times[i] = n_steps
                /\ paths[i] = price_paths[i]

\* A path that falls to the liquidation price and is above it again later.
C6_Witness ==
    \E i \in Paths :
        /\ liquidated[i]
        /\ \E k \in Crossings(i) :
              \E j \in Steps : j > k /\ j \notin Crossings(i)

\* C7: a path is liquidated iff one of its prices 0..n_steps is at or below
\* initial_price * (1 - 1/leverage); its liquidation step is the first such
\* index, and every earlier price is strictly above the liquidation price.
C7_FirstCrossing ==
    \A i \in Paths :
        /\ liquidated[i] <=> Crossings(i) # {}
        /\ liquidated[i] =>
              /\ liquidation_times[i] \in Crossings(i)
              /\ \A j \in Steps :
                    j < liquidation_times[i] =>
                        FLt(liquidation_price(param.leverage), price_paths[i][j + 1])

\* A liquidated path at or below the liquidation price at two steps.
C7_Witness ==
    \E i \in Paths :
        /\ liquidated[i]
        /\ Cardinality(Crossings(i)) >= 2
        /\ liquidation_times[i] >= 1

\* The horizon in days, n_steps * dt * 365, with dt = 1/StepsPerYear.
HorizonDays == FixMulDiv(n_steps * DaysPerYear, Scale, StepsPerYear)

\* C8: with no path liquidated the mean liquidation time is the horizon in
\* days; otherwise it is the mean of the liquidation steps of the liquidated
\* paths alone (to the rounding of the division).
C8_MeanAmongLiquidated ==
    pc = "done" =>
        LET hit   == {i \in Paths : liquidated[i]}
            n     == Cardinality(hit)
            total == SumOver(liquidation_times, liquidated, Len(liquidated))
            avg   == stats.avg_liquidation_time
        IN  /\ avg.k = "fin"
            /\ n = 0 => avg = HorizonDays
            /\ n > 0 => Abs(avg.v * n - total * Scale) <= n

\* A run in which no path was liquidated.
C8_Witness ==
    /\ pc = "done"
    /\ \A i \in Paths : ~liquidated[i]
    /\ stats.avg_liquidation_time = HorizonDays

\* C9: a path whose price is not finite at some step, with no earlier step at
\* or below the liquidation price, is liquidated at that step.
C9_NonFiniteLiquidated ==
    \A i \in Paths :
        \A j \in Steps :
            /\ IsNonFinite(price_paths[i][j + 1])
            /\ \A k \in Steps :
                  k < j => /\ ~IsNonFinite(price_paths[i][k + 1])
                           /\ k \notin Crossings(i)
            => liquidated[i] /\ liquidation_times[i] = j

\* C16: after the loop every path has n_steps + 1 entries, the first the
\* initial price; a liquidated path has its liquidation time in 1..n_steps
\* and all its entries from that index on blanked, a survivor has n_steps as
\* its time; every price that is kept is strictly above the liquidation
\* price.
C16_PathsAfterLoop ==
    /\ pc = "done" => Len(paths) = n_paths
    /\ \A i \in Paths :
          /\ Len(paths[i]) = n_steps + 1
          /\ paths[i][1] = Fin(initial_price * Scale)
          /\ IF liquidated[i]
             THEN /\ liquidation_times[i] \in 1..n_steps
                  /\ \A j \in Steps :
                        j >= liquidation_times[i] => paths[i][j + 1] = NaN
             ELSE liquidation_times[i] = n_steps
          /\ \A j \in Steps :
                paths[i][j + 1] # NaN =>
                    FLt(liquidation_price(param.leverage), paths[i][j + 1])

\* The loop is over, with a path liquidated at step 1 and a survivor that
\* keeps all its prices.
C16_Witness ==
    /\ pc = "done"
    /\ \E i \in Paths :
          /\ liquidated[i]
          /\ liquidation_times[i] = 1
          /\ paths[i][1] # NaN
    /\ \E k \in Paths :
          /\ ~liquidated[k]
          /\ \A j \in Steps : paths[k][j + 1] # NaN

\* ------------------------------------------------------------------------
\* Properties of the program funding_comparison.py (specification MainSpec)

\* C17: run as a program, funding_comparison performs its steps to
\* completion: create_median_leverage_funding_chart returns its figure
\* without raising, after its chart and its table, and the program then goes
\* on to create_mean_vs_median_chart and the key insights.
C17_RunsToCompletion ==
    /\ main.pc # "NameError"
    /\ main.pc = "done" =>
          /\ Len(main.rows) = Len(scenarios)
          /\ Len(main.printed) = 4

=============================================================================
